---- MODULE Spec2Model ----
(***************************************************************************)
(* Model of the Gemini API wrapper: the Elysia controllers (chat, image,   *)
(* figurine, hijabkan, sdmtinggi, hitamkan) and the GeminiService class    *)
(* they call.  One HTTP request is followed from the route's schema to the *)
(* HTTP response; the images directory persists across requests.          *)
(*                                                                         *)
(* Representation of JavaScript values:                                    *)
(*   - a string that the code only concatenates (messages, texts) is the   *)
(*     sequence of its pieces, "" being << >>;                             *)
(*   - a MIME type is the list of its '/'-separated components, which is   *)
(*     what mimeType.split('/') yields: "image/png" is <<"image","png">>,  *)
(*     "image" is <<"image">> and "" is <<"">>;                            *)
(*   - base64 text is [b64 |-> bytes], so that encoding and decoding are   *)
(*     distinct conversions;                                               *)
(*   - undefined is the record Undefined.                                  *)
(***************************************************************************)
EXTENDS Naturals, Sequences, FiniteSets

(* ------------------------------ bounds --------------------------------- *)

\* Longest list of content parts in one model response (or stream chunk).
MaxParts == 2

\* Date.now() yields a value in 1..MaxTimestamp.
MaxTimestamp == 2

\* Longest chunk sequence of a streamed response.
MaxChunks == 3

(* --------------------------- JavaScript values -------------------------- *)

Undefined == [isUndefined |-> TRUE]

Str(s) == [isUndefined |-> FALSE, value |-> s]

\* JavaScript truthiness of an optional string: undefined and "" are falsy.
Truthy(v) == ~v.isUndefined /\ v.value # << >> /\ v.value # <<"">>

RECURSIVE Concat(_)
\* The concatenation of a list of strings.
Concat(ss) == IF ss = << >> THEN << >> ELSE Head(ss) \o Concat(Tail(ss))

\* Whether string t occurs in string s (as a run of consecutive pieces).
Contains(s, t) ==
    \E i \in 0..Len(s) : \E j \in i..Len(s) : SubSeq(s, i + 1, j) = t

\* Buffer.from(arrayBuffer).toString('base64')
Base64Encode(bytes) == [b64 |-> bytes]

\* Buffer.from(data, 'base64')
Base64Decode(data) == data.b64

\* The sequences over S of length at most n.
SeqsUpTo(S, n) == UNION {[1..k -> S] : k \in 0..n}

(* ------------------------------ requests -------------------------------- *)

Presets == {"chat", "image", "figurine", "hijab", "sdmtinggi", "hitam"}

\* The presets whose input contract is one required image.
SingleImagePresets == {"figurine", "hijab", "sdmtinggi", "hitam"}

\* A media field of a request: missing, the empty string, a URL string, or an
\* uploaded File with its bytes and declared type.
AbsentMedia == [kind |-> "absent"]
EmptyUrl == [kind |-> "emptyUrl"]
RemoteMedia == [kind |-> "remote", url |-> <<"http://host/img">>]
InlineMedia(type) == [kind |-> "inline", bytes |-> "F", type |-> type]

PngType == <<"image", "png">>
NoType == <<"">>

\* The declared types an upload can have on a route: t.File() of /chat/upload
\* accepts any file, a File without a declared type included (its type is "");
\* the image routes declare a type constraint on the file.
UploadTypes(preset) == IF preset = "chat" THEN {PngType, NoType} ELSE {PngType}

Request(preset, route, media, systemPrompt, useTools, useThinking, sessionId) ==
    [preset |-> preset, route |-> route, media |-> media,
     message |-> <<"hello">>, systemPrompt |-> systemPrompt,
     useTools |-> useTools, useThinking |-> useThinking, sessionId |-> sessionId]

SystemPrompts == {Undefined, Str(<<"be brief">>)}
SessionIds == {Undefined, Str(<<"s1">>)}

ChatRequests ==
    {Request("chat", "POST /chat", AbsentMedia, sp, ut, th, sid) :
        sp \in SystemPrompts, ut \in BOOLEAN, th \in BOOLEAN, sid \in SessionIds}
    \cup
    {Request("chat", "GET /chat", m, sp, ut, th, sid) :
        m \in {AbsentMedia, RemoteMedia},
        sp \in SystemPrompts, ut \in BOOLEAN, th \in BOOLEAN, sid \in SessionIds}
    \cup
    {Request("chat", "POST /chat/upload", m, sp, FALSE, FALSE, sid) :
        m \in {AbsentMedia} \cup {InlineMedia(t) : t \in UploadTypes("chat")},
        sp \in SystemPrompts, sid \in SessionIds}
    \cup
    {Request("chat", "GET /chat/with-file", m, sp, FALSE, FALSE, sid) :
        m \in {AbsentMedia, RemoteMedia},
        sp \in SystemPrompts, sid \in SessionIds}

ImageRequests ==
    {Request("image", r, AbsentMedia, Undefined, FALSE, FALSE, Undefined) :
        r \in {"POST /image/generate", "GET /image/generate"}}

SingleImageRequests ==
    {Request(p, "POST", m, Undefined, FALSE, FALSE, Undefined) :
        p \in SingleImagePresets,
        m \in {AbsentMedia} \cup {InlineMedia(t) : t \in UploadTypes("figurine")}}
    \cup
    {Request(p, "GET", m, Undefined, FALSE, FALSE, Undefined) :
        p \in SingleImagePresets, m \in {AbsentMedia, EmptyUrl, RemoteMedia}}

Requests == ChatRequests \cup ImageRequests \cup SingleImageRequests

\* The route's schema (t.Object): a required field must be present.  A route
\* whose schema has no file field never passes one to the handler.
SchemaAccepts(req) ==
    CASE req.route = "POST /chat" -> req.media.kind = "absent"
      [] req.route = "GET /chat" -> req.media.kind \in {"absent", "remote"}
      [] req.route = "POST /chat/upload" -> req.media.kind = "inline"
      [] req.route = "GET /chat/with-file" -> req.media.kind = "remote"
      [] req.route \in {"POST /image/generate", "GET /image/generate"} -> TRUE
      [] req.route = "POST" -> req.media.kind = "inline"
      [] req.route = "GET" -> req.media.kind \in {"emptyUrl", "remote"}

(* --------------------------- the outside world -------------------------- *)

\* What fetch(fileUrl) can do: a response (ok or not, with or without a
\* content-type header), a transport failure, or a failure reading the body.
FetchResponse(ok, statusText, contentType) ==
    [kind |-> "response", ok |-> ok, statusText |-> statusText,
     contentType |-> contentType, body |-> "R", message |-> << >>]
FetchThrows(kind, message) ==
    [kind |-> kind, ok |-> FALSE, statusText |-> << >>,
     contentType |-> Undefined, body |-> "R", message |-> message]

FetchOutcomes ==
    {FetchResponse(TRUE, <<"OK">>, Str(<<"image", "jpeg">>)),
     FetchResponse(TRUE, <<"OK">>, Undefined),
     FetchResponse(TRUE, <<"OK">>, Str(<<"">>)),
     FetchResponse(FALSE, <<"Not Found">>, Str(<<"text", "html">>)),
     FetchThrows("network", <<"fetch failed">>),
     FetchThrows("body", <<"terminated">>)}

\* A content part of a model response: text, inline image data, or neither
\* (a part of another kind, such as a function call).
TextPart(t) == [text |-> Str(t), inlineData |-> Undefined]
ImagePart(bytes, mimeType) ==
    [text |-> Undefined,
     inlineData |-> [isUndefined |-> FALSE, data |-> Base64Encode(bytes),
                     mimeType |-> mimeType]]
OtherPart == [text |-> Undefined, inlineData |-> Undefined]

JpegType == <<"image", "jpeg">>

PartValues ==
    {TextPart(<<"a">>), TextPart(<<"b">>),
     ImagePart("X", Str(JpegType)), ImagePart("Y", Str(<<"image">>)),
     ImagePart("U", Undefined), OtherPart}

\* A response object (or one chunk of a stream): candidates may be missing or
\* empty, the first candidate may lack content, the content may lack parts.
Response(shape, parts) == [shape |-> shape, parts |-> parts]

DegenerateResponses ==
    {Response(s, << >>) :
        s \in {"noCandidates", "emptyCandidates", "noContent", "noParts"}}

Responses ==
    DegenerateResponses \cup
    {Response("parts", ps) : ps \in SeqsUpTo(PartValues, MaxParts)}

\* The chat model is a text model: its parts are text or of another kind.
ChatResponses ==
    {Response("noCandidates", << >>)} \cup
    {Response("parts", ps) :
        ps \in SeqsUpTo({TextPart(<<"a">>), TextPart(<<"b">>), OtherPart}, MaxParts)}

ModelErrors == {<<"503 model overloaded">>}

\* What fs.writeFileSync can do.
WriteOutcomes == {"written", "ENOSPC"}

Timestamps == 1..MaxTimestamp

(* ------------------------ the GeminiService class ----------------------- *)

\* The method definitions of the class body, in source order.  api is the SDK
\* call the method makes, policy what it does with an image part, prefix the
\* text its catch clause puts before the caught message.
MethodDef(name, api, policy, prompt, prefix, type) ==
    [isUndefined |-> FALSE, name |-> name, api |-> api, policy |-> policy,
     prompt |-> prompt, prefix |-> prefix, type |-> type]

ClassBody ==
    << MethodDef("fetchFileFromUrl", "none", "none", << >>,
                 <<"Error fetching file from URL: ">>, "none"),
       MethodDef("generateChatResponse", "generateContentStream", "text", << >>,
                 <<"Chat generation failed: ">>, "none"),
       MethodDef("saveImageToFile", "none", "none", << >>,
                 <<"Failed to save image: ">>, "none"),
       MethodDef("generateImage", "generateContentStream", "inline", << >>,
                 <<"Image generation failed: ">>, "none"),
       MethodDef("generateChatResponse", "generateContent", "text", << >>,
                 <<"Chat generation failed: ">>, "none"),
       MethodDef("generateImage", "generateContent", "file", << >>,
                 <<"Image generation failed: ">>, "none"),
       MethodDef("generateFigurine", "generateContent", "buffer",
                 <<"FIGURINE_PROMPT">>,
                 <<"Figurine generation failed: ">>, "figurine"),
       MethodDef("generateHijab", "generateContent", "buffer",
                 <<"HIJAB_PROMPT">>,
                 <<"Hijab generation failed: ">>, "hijab"),
       MethodDef("generateSdmTinggi", "generateContent", "buffer",
                 <<"SDMTINGGI_PROMPT">>,
                 <<"SdmTinggi generation failed: ">>, "sdmtinggi") >>

\* A mis-resolution: the first definition of a repeated name.
FirstMethod(name) ==
    LET defs == {i \in DOMAIN ClassBody : ClassBody[i].name = name}
    IN  IF defs = {} THEN Undefined
        ELSE ClassBody[CHOOSE i \in defs : \A j \in defs : i <= j]

\* geminiService[name]: in a class body a later definition of a name replaces
\* an earlier one; a name the class does not define is undefined.
Method(name) ==
    LET defs == {i \in DOMAIN ClassBody : ClassBody[i].name = name}
    IN  IF defs = {} THEN Undefined
        ELSE ClassBody[CHOOSE i \in defs : \A j \in defs : i >= j]

\* The service method each controller calls.
ControllerMethod(preset) ==
    CASE preset = "chat" -> "generateChatResponse"
      [] preset = "image" -> "generateImage"
      [] preset = "figurine" -> "generateFigurine"
      [] preset = "hijab" -> "generateHijab"
      [] preset = "sdmtinggi" -> "generateSdmTinggi"
      [] preset = "hitam" -> "generateHitam"
      [] OTHER -> "none"

\* A catch clause that drops the caught message.
CatchDroppingMessage(prefix, message) == prefix

\* catch (error) { throw new Error(`<prefix>${error.message}`) }
CatchAndWrap(prefix, message) == prefix \o message

Thrown(message) == [thrown |-> TRUE, message |-> message]
Returned(value) == [thrown |-> FALSE, value |-> value]

\* A resolver that takes the content-type header as it is, absent or empty.
FetchFileFromUrlNoFallback(o) ==
    IF o.kind = "response" /\ o.ok
    THEN Returned([data |-> Base64Encode(o.body), mimeType |-> o.contentType])
    ELSE Thrown(<<"Error fetching file from URL: ">> \o
                (IF o.kind = "response"
                 THEN <<"Failed to fetch file: ">> \o o.statusText ELSE o.message))

\* A resolver that does not test response.ok: the body of an error page is
\* returned as media.
FetchFileFromUrlIgnoringStatus(o) ==
    IF o.kind = "response"
    THEN Returned([data |-> Base64Encode(o.body),
                   mimeType |-> IF Truthy(o.contentType) THEN o.contentType
                                ELSE Str(<<"application", "octet-stream">>)])
    ELSE Thrown(<<"Error fetching file from URL: ">> \o o.message)

\* fetchFileFromUrl on a given outcome of fetch: the media, or the thrown error.
FetchFileFromUrl(o) ==
    LET wrap(m) == CatchAndWrap(Method("fetchFileFromUrl").prefix, m)
    IN  CASE o.kind = "network" -> Thrown(wrap(o.message))
          [] o.kind = "response" /\ ~o.ok ->
                Thrown(wrap(<<"Failed to fetch file: ">> \o o.statusText))
          [] o.kind = "body" -> Thrown(wrap(o.message))
          [] OTHER ->
                Returned([data |-> Base64Encode(o.body),
                          mimeType |-> IF Truthy(o.contentType)
                                       THEN o.contentType
                                       ELSE Str(<<"application", "octet-stream">>)])

\* The File branch: arrayBuffer(), base64, and the declared type as it is.
ReadUpload(file) ==
    [data |-> Base64Encode(file.bytes), mimeType |-> Str(file.type)]

(* --------------------------- content assembly --------------------------- *)

TextOnly(t) == [kind |-> "text", text |-> t]
InlineDataPart(media) ==
    [kind |-> "inlineData", data |-> media.data, mimeType |-> media.mimeType]
Turn(parts) == [role |-> "user", parts |-> parts]

NoMedia == [isUndefined |-> TRUE]
SomeMedia(m) == [isUndefined |-> FALSE, data |-> m.data, mimeType |-> m.mimeType]

\* An assembly that replays what the session map holds for the request's
\* session before the turns of the request.
ChatContentsWithSession(req, media) ==
    (IF Truthy(req.sessionId)
     THEN <<Turn(<<TextOnly(<<"history of ">> \o req.sessionId.value)>>)>>
     ELSE << >>)
    \o (IF Truthy(req.systemPrompt)
        THEN <<Turn(<<TextOnly(req.systemPrompt.value)>>)>> ELSE << >>)
    \o <<Turn(<<TextOnly(req.message)>> \o
              (IF media.isUndefined THEN << >> ELSE <<InlineDataPart(media)>>))>>

\* An assembly that pushes the media part before the text part and the
\* system turn after the user turn.
ChatContentsMediaFirst(req, media) ==
    LET parts == (IF media.isUndefined THEN << >> ELSE <<InlineDataPart(media)>>)
                 \o <<TextOnly(req.message)>>
    IN  <<Turn(parts)>> \o
        (IF Truthy(req.systemPrompt)
         THEN <<Turn(<<TextOnly(req.systemPrompt.value)>>)>> ELSE << >>)

\* generateChatResponse: parts, then the optional system turn, then the user turn.
ChatContents(req, media) ==
    LET parts == <<TextOnly(req.message)>> \o
                 (IF media.isUndefined THEN << >> ELSE <<InlineDataPart(media)>>)
    IN  (IF Truthy(req.systemPrompt)
         THEN <<Turn(<<TextOnly(req.systemPrompt.value)>>)>> ELSE << >>)
        \o <<Turn(parts)>>

\* A configuration in which thinking mode switches the tools off.
ChatConfigExclusive(req) ==
    IF req.useThinking THEN {"thinkingConfig.thinkingBudget=-1"}
    ELSE IF req.useTools THEN {"tools=[googleSearch]"} ELSE {}

\* generateChatResponse: thinkingConfig and tools, each under its own flag.
ChatConfig(req) ==
    (IF req.useThinking THEN {"thinkingConfig.thinkingBudget=-1"} ELSE {})
    \cup (IF req.useTools THEN {"tools=[googleSearch]"} ELSE {})

ImageConfig == {"responseModalities=[IMAGE,TEXT]"}

\* generateImage: one user turn holding the prompt.
ImageContents(req) == <<Turn(<<TextOnly(req.message)>>)>>

\* generateFigurine, generateHijab, generateSdmTinggi: the fixed prompt, then
\* the image.
SingleImageContents(def, media) ==
    <<Turn(<<TextOnly(def.prompt), InlineDataPart(media)>>)>>

ChatModel == "gemini-2.5-flash"
ImagePreviewModel == "gemini-2.5-flash-image-preview"

\* The call the service method makes on this.ai.models.
ModelCall(def, req, media) ==
    [api |-> def.api,
     model |-> IF def.name = "generateChatResponse" THEN ChatModel
               ELSE ImagePreviewModel,
     config |-> IF def.name = "generateChatResponse" THEN ChatConfig(req)
                ELSE ImageConfig,
     contents |-> CASE def.name = "generateChatResponse" -> ChatContents(req, media)
                    [] def.name = "generateImage" -> ImageContents(req)
                    [] OTHER -> SingleImageContents(def, media)]

NoCall == [api |-> "none"]

(* ----------------------------- aggregation ------------------------------ *)

\* response.text / chunk.text of the SDK: the texts of the first candidate's
\* text parts joined, undefined when there is none.
RECURSIVE JoinTexts(_)
JoinTexts(parts) ==
    IF parts = << >> THEN << >>
    ELSE (IF Truthy(Head(parts).text) THEN Head(parts).text.value ELSE << >>)
         \o JoinTexts(Tail(parts))

SdkText(r) ==
    IF r.shape = "parts" /\ \E i \in DOMAIN r.parts : Truthy(r.parts[i].text)
    THEN Str(JoinTexts(r.parts)) ELSE Undefined

\* A guard that reads candidates[0].content without testing candidates[0]:
\* it throws on an empty candidates array.
PartsGuardUnchecked(r) ==
    CASE r.shape = "emptyCandidates" -> "throw"
      [] r.shape = "parts" -> "enter"
      [] OTHER -> "skip"

\* if (response.candidates && response.candidates[0] &&
\*     response.candidates[0].content && response.candidates[0].content.parts)
PartsGuard(r) == IF r.shape = "parts" THEN "enter" ELSE "skip"

EmptyArtifact == [images |-> << >>, text |-> << >>]

\* An image entry that is always labelled image/png, as the download's file
\* name is.
BufferImageAsPng(inlineData) ==
    [buffer |-> Base64Decode(inlineData.data),
     mimeType |-> Str(<<"image", "png">>),
     data |-> inlineData.data]

\* An image entry under buffer policy.
BufferImage(inlineData) ==
    [buffer |-> Base64Decode(inlineData.data),
     mimeType |-> inlineData.mimeType,
     data |-> inlineData.data]

\* A loop body that keeps only the latest image.
LoopBodyKeepingLast(acc, part, entry) ==
    IF ~part.inlineData.isUndefined
    THEN [acc EXCEPT !.images = <<entry>>]
    ELSE IF Truthy(part.text)
         THEN [acc EXCEPT !.text = @ \o part.text.value]
         ELSE acc

\* The body of `for (const part of parts)`: an image part appends the entry
\* made of it, otherwise a text part appends its text.
LoopBody(acc, part, entry) ==
    IF ~part.inlineData.isUndefined
    THEN [acc EXCEPT !.images = Append(@, entry)]
    ELSE IF Truthy(part.text)
         THEN [acc EXCEPT !.text = @ \o part.text.value]
         ELSE acc

RECURSIVE AggregateBuffer(_, _)
\* The loop of generateFigurine, generateHijab and generateSdmTinggi.
AggregateBuffer(acc, parts) ==
    IF parts = << >> THEN acc
    ELSE AggregateBuffer(
            LoopBody(acc, Head(parts),
                     IF Head(parts).inlineData.isUndefined THEN Undefined
                     ELSE BufferImage(Head(parts).inlineData)),
            Tail(parts))

\* One iteration of the streaming loop of the first generateImage.
ImageStreamStep(acc, chunk) ==
    CASE acc.thrown -> acc
      [] chunk.shape = "emptyCandidates" ->
            [acc EXCEPT !.thrown = TRUE,
                        !.message = <<"Cannot read properties of undefined (reading 'content')">>]
      [] chunk.shape # "parts" -> acc
      [] Len(chunk.parts) >= 1 /\ ~chunk.parts[1].inlineData.isUndefined ->
            [acc EXCEPT !.images = Append(@,
                [data |-> chunk.parts[1].inlineData.data,
                 mimeType |-> chunk.parts[1].inlineData.mimeType])]
      [] Truthy(SdkText(chunk)) ->
            [acc EXCEPT !.text = @ \o SdkText(chunk).value]
      [] OTHER -> acc

\* One iteration of the streaming loop of the first generateChatResponse.
ChatStreamStep(acc, chunk) ==
    IF Truthy(SdkText(chunk))
    THEN [acc EXCEPT !.text = @ \o SdkText(chunk).value,
                     !.chunks = Append(@, SdkText(chunk).value)]
    ELSE acc

StreamStart ==
    [images |-> << >>, text |-> << >>, chunks |-> << >>,
     thrown |-> FALSE, message |-> << >>]

RECURSIVE ConsumeStream(_, _, _)
\* for await (const chunk of response) of the method with the given policy.
ConsumeStream(policy, acc, chunks) ==
    IF chunks = << >> THEN acc
    ELSE ConsumeStream(policy,
                       IF policy = "text" THEN ChatStreamStep(acc, Head(chunks))
                       ELSE ImageStreamStep(acc, Head(chunks)),
                       Tail(chunks))

\* The chunks a stream can deliver.
StreamChunks ==
    DegenerateResponses \cup
    {Response("parts", ps) :
        ps \in {<< >>, <<TextPart(<<"a">>)>>, <<TextPart(<<"b">>)>>,
                <<ImagePart("X", Str(JpegType))>>, <<OtherPart>>,
                <<TextPart(<<"a">>), ImagePart("X", Str(JpegType))>>,
                <<ImagePart("X", Str(JpegType)), TextPart(<<"a">>)>>}}

StreamChunkSeqs == SeqsUpTo(StreamChunks, MaxChunks)

(* --------------------------- saveImageToFile ---------------------------- *)

\* mimeType.split('/')[1] || 'png'
Extension(mimeType) ==
    IF Len(mimeType.value) >= 2 /\ mimeType.value[2] # ""
    THEN mimeType.value[2] ELSE "png"

\* `generated_${timestamp}.${extension}`
Filename(timestamp, extension) ==
    [prefix |-> "generated_", timestamp |-> timestamp, extension |-> extension]

\* `/images/${filename}`
ImageUrl(filename) == [dir |-> "/images/", filename |-> filename]

\* A write that leaves an existing file as it is (flag 'wx' without the error).
WriteFileKeepingExisting(dir, name, buffer) ==
    [n \in DOMAIN dir \cup {name} |-> IF n \in DOMAIN dir THEN dir[n] ELSE buffer]

\* fs.writeFileSync(filepath, buffer): creates the file or replaces its content.
WriteFile(dir, name, buffer) ==
    [n \in DOMAIN dir \cup {name} |-> IF n = name THEN buffer ELSE dir[n]]

\* saveImageToFile with Date.now() = ts and the given outcome of the write:
\* the URL and the directory after it, or the thrown error.
SaveImageToFile(base64Data, mimeType, ts, outcome, dir) ==
    LET wrap(m) == CatchAndWrap(Method("saveImageToFile").prefix, m)
    IN  IF mimeType.isUndefined
        THEN Thrown(wrap(<<"Cannot read properties of undefined (reading 'split')">>))
        ELSE IF outcome # "written"
        THEN Thrown(wrap(<<outcome>>))
        ELSE LET name == Filename(ts, Extension(mimeType))
             IN  Returned([url |-> ImageUrl(name),
                           dir |-> WriteFile(dir, name, Base64Decode(base64Data))])

\* The image entry of generateImage under file policy.
FileImage(url, inlineData) == [url |-> url, mimeType |-> inlineData.mimeType]

(* ------------------------------ controllers ----------------------------- *)

NoResponse == [kind |-> "none"]

\* The route's schema rejected the request: the handler does not run.
SchemaError == [kind |-> "schema", status |-> 422]

Envelope(status, message) ==
    [kind |-> "json", status |-> status, success |-> FALSE, error |-> message]

SuccessPayload(data) ==
    [kind |-> "json", status |-> 200, success |-> TRUE, data |-> data]

\* return firstImage.buffer, with Content-Type and Content-Disposition set.
BufferResponse(firstImage, preset) ==
    [kind |-> "buffer", status |-> 200, body |-> firstImage.buffer,
     contentType |-> firstImage.mimeType, disposition |-> preset]

NoImageGenerated == <<"No image generated">>
ImageUrlRequired == <<"imageUrl parameter is required">>

\* A catch that sets status 500 in every controller.
ControllerCatchAlways500(preset, message) == Envelope(500, message)

\* catch (error) of a controller: chat and image set status 500, the others
\* leave the status alone.
ControllerCatch(preset, message) ==
    Envelope(IF preset \in {"chat", "image"} THEN 500 ELSE 200, message)

\* A result that does not echo the session id.
ChatResultWithoutSession(req, text, chunks, def) ==
    [text |-> text,
     chunks |-> IF def.api = "generateContentStream" THEN Str(chunks) ELSE Undefined,
     sessionId |-> Undefined,
     usedTools |-> req.useTools, usedThinking |-> req.useThinking]

\* What the service returns to the controller.
ChatResult(req, text, chunks, def) ==
    [text |-> text,
     chunks |-> IF def.api = "generateContentStream" THEN Str(chunks) ELSE Undefined,
     sessionId |-> IF Truthy(req.sessionId) THEN req.sessionId ELSE Undefined,
     usedTools |-> req.useTools, usedThinking |-> req.useThinking]

\* An artifact whose totalImages says whether there is an image, not how many.
ImageResultCountingFirst(acc, type) ==
    IF type = "none"
    THEN [images |-> acc.images, text |-> acc.text,
          totalImages |-> IF acc.images = << >> THEN 0 ELSE 1]
    ELSE [images |-> acc.images, text |-> acc.text,
          totalImages |-> IF acc.images = << >> THEN 0 ELSE 1, type |-> type]

\* generateImage returns no type field.
ImageResult(acc, type) ==
    IF type = "none"
    THEN [images |-> acc.images, text |-> acc.text, totalImages |-> Len(acc.images)]
    ELSE [images |-> acc.images, text |-> acc.text,
          totalImages |-> Len(acc.images), type |-> type]

\* A controller that returns the last image of the result.
SingleImageRespondLast(preset, result) ==
    IF Len(result.images) > 0
    THEN BufferResponse(result.images[Len(result.images)], preset)
    ELSE Envelope(200, NoImageGenerated)

\* figurine, hijab, sdmtinggi: the first image as a buffer, or "No image
\* generated".
SingleImageRespond(preset, result) ==
    IF Len(result.images) > 0
    THEN BufferResponse(result.images[1], preset)
    ELSE Envelope(200, NoImageGenerated)

(* -------------------------------- state --------------------------------- *)

VARIABLES
    pc,          \* where the request in progress is: idle, route, resolve,
                 \* call, loop, done
    request,     \* the request in progress
    fetched,     \* what fetch did for this request, if it ran
    media,       \* the resolved media of the request, if any
    call,        \* the call made to the external model, if any
    modelCalls,  \* the number of calls made to the model for this request
    output,      \* the model's response, while generateImage loops over it
    partIdx,     \* the part the loop of generateImage is at
    acc,         \* images and textResponse of the loop of generateImage
    result,      \* what the service method returned to the controller, if it did
    cause,       \* the error, if any, a step of this request ended in
    response,    \* the HTTP response of the request
    files,       \* the images directory: file name -> content
    sLoop,       \* a streaming loop on its own: which loop,
    sInput,      \*   the chunks the stream delivers,
    sPos,        \*   the chunk the loop is at,
    sAcc,        \*   what it has accumulated,
    sPc,         \*   and whether it is consuming, has returned or has thrown
    sessions,    \* this.sessions of the service: session id -> what is stored
    aReq,        \* content assembly on its own: the request each of two
                 \*   service instances is given,
    aMedia,      \*   the media resolved for it,
    aTurns,      \*   and the contents the instance dispatched, once it has
    resolutions, \* the number of media resolutions made for this request
    wSave,       \* saveImageToFile on its own: the image each of two saves
                 \*   is given and the timestamp it reads,
    wUrl,        \*   what each save returned, once it has,
    wDone        \*   and the saves in the order of their writes

requestVars == <<pc, request, fetched, media, call, modelCalls, output, partIdx,
                 acc, result, cause, response, resolutions>>
streamVars == <<sLoop, sInput, sPos, sAcc, sPc>>
assembleVars == <<aReq, aMedia, aTurns>>
saveVars == <<wSave, wUrl, wDone>>
vars == <<requestVars, files, sessions, streamVars, assembleVars, saveVars>>

NoRequest == Request("none", "none", AbsentMedia, Undefined, FALSE, FALSE, Undefined)
NoFetch == FetchThrows("none", << >>)
NoCause == [thrown |-> FALSE]
Cause(step, message) == [thrown |-> TRUE, step |-> step, message |-> message]
NoOutput == Response("none", << >>)
NoResult == [isUndefined |-> TRUE]
SomeResult(r) == [isUndefined |-> FALSE, value |-> r]

RequestInit ==
    /\ pc = "idle"
    /\ request = NoRequest
    /\ fetched = NoFetch
    /\ media = NoMedia
    /\ call = NoCall
    /\ modelCalls = 0
    /\ output = NoOutput
    /\ partIdx = 0
    /\ acc = EmptyArtifact
    /\ result = NoResult
    /\ cause = NoCause
    /\ response = NoResponse
    /\ resolutions = 0

StreamOff ==
    /\ sLoop = "none"
    /\ sInput = << >>
    /\ sPos = 1
    /\ sAcc = StreamStart
    /\ sPc = "off"

\* Every controller module constructs its own GeminiService.
Instances == {"chatService", "imageService"}

NotAssembled == [isUndefined |-> TRUE]
Assembled(contents) == [isUndefined |-> FALSE, value |-> contents]

\* Two calls of saveImageToFile, by two requests or for two parts of one
\* response.
Saves == {"firstSave", "secondSave"}

NotSaved == [isUndefined |-> TRUE]

SaveOff ==
    /\ wSave = [i \in Saves |-> NotSaved]
    /\ wUrl = [i \in Saves |-> NotSaved]
    /\ wDone = << >>

AssembleOff ==
    /\ aReq = [i \in Instances |-> NoRequest]
    /\ aMedia = [i \in Instances |-> NoMedia]
    /\ aTurns = [i \in Instances |-> NotAssembled]

\* After construction: no request yet, an empty session map, and an images
\* directory without files.
Init ==
    /\ RequestInit
    /\ files = << >>
    /\ sessions = << >>
    /\ StreamOff
    /\ AssembleOff
    /\ SaveOff

(* ------------------------------- requests ------------------------------- *)

Def == Method(ControllerMethod(request.preset))

\* A check that only catches a missing parameter, not an empty one.
MissingImageUrlUndefinedOnly ==
    /\ request.preset \in SingleImagePresets
    /\ request.route = "GET"
    /\ request.media.kind = "absent"

\* if (!query.imageUrl) of the GET handlers of the single-image presets
MissingImageUrl ==
    /\ request.preset \in SingleImagePresets
    /\ request.route = "GET"
    /\ request.media.kind \in {"absent", "emptyUrl"}

\* A chat method that dispatches without looking at the file of the request.
NeedsMediaSingleImageOnly == request.preset \in SingleImagePresets

\* Whether the service method resolves a media reference for this request.
NeedsMedia ==
    IF request.preset = "chat" THEN request.media.kind \in {"remote", "inline"}
    ELSE request.preset \in SingleImagePresets

\* A request arrives at a route.
Receive(req) ==
    /\ pc = "idle"
    /\ pc' = "route"
    /\ request' = req
    /\ UNCHANGED <<result, fetched, media, call, modelCalls, output, partIdx, acc, cause,
                   response, files, sessions, streamVars, assembleVars, saveVars, resolutions>>

\* The response is sent and the request, with all that belongs to it, is gone.
Finish ==
    /\ pc = "done"
    /\ pc' = "idle"
    /\ request' = NoRequest
    /\ fetched' = NoFetch
    /\ media' = NoMedia
    /\ call' = NoCall
    /\ modelCalls' = 0
    /\ output' = NoOutput
    /\ partIdx' = 0
    /\ acc' = EmptyArtifact
    /\ result' = NoResult
    /\ cause' = NoCause
    /\ response' = NoResponse
    /\ resolutions' = 0
    /\ UNCHANGED <<files, sessions, streamVars, assembleVars, saveVars>>

\* The route's schema rejects the request.
SchemaReject ==
    /\ pc = "route"
    /\ ~SchemaAccepts(request)
    /\ response' = SchemaError
    /\ pc' = "done"
    /\ UNCHANGED <<result, request, fetched, media, call, modelCalls, output, partIdx,
                   acc, cause, files, sessions, streamVars, assembleVars, saveVars, resolutions>>

\* A GET handler of a single-image preset returns its validation failure.
ValidationReject ==
    /\ pc = "route"
    /\ SchemaAccepts(request)
    /\ MissingImageUrl
    /\ response' = Envelope(200, ImageUrlRequired)
    /\ pc' = "done"
    /\ UNCHANGED <<result, request, fetched, media, call, modelCalls, output, partIdx,
                   acc, cause, files, sessions, streamVars, assembleVars, saveVars, resolutions>>

\* The controller calls a method the service does not have: the TypeError is
\* caught by the controller's own catch.
MissingMethod ==
    /\ pc = "route"
    /\ SchemaAccepts(request)
    /\ ~MissingImageUrl
    /\ Def.isUndefined
    /\ LET message == <<"geminiService.", ControllerMethod(request.preset),
                        " is not a function">>
       IN  /\ cause' = Cause("method", message)
           /\ response' = ControllerCatch(request.preset, message)
    /\ pc' = "done"
    /\ UNCHANGED <<result, request, fetched, media, call, modelCalls, output, partIdx,
                   acc, files, sessions, streamVars, assembleVars, saveVars, resolutions>>

\* The controller calls the service method, which runs to its first await:
\* the media resolution, or the model call when there is no media to resolve.
InvokeService ==
    /\ pc = "route"
    /\ SchemaAccepts(request)
    /\ ~MissingImageUrl
    /\ ~Def.isUndefined
    /\ IF NeedsMedia
       THEN /\ pc' = "resolve"
            /\ UNCHANGED <<call, modelCalls>>
       ELSE /\ pc' = "call"
            /\ call' = ModelCall(Def, request, NoMedia)
            /\ modelCalls' = modelCalls + 1
    /\ UNCHANGED <<result, request, fetched, media, output, partIdx, acc, cause,
                   response, files, sessions, streamVars, assembleVars, saveVars, resolutions>>

\* The File branch of the media resolution, then the model call.
ReadInline ==
    /\ pc = "resolve"
    /\ request.media.kind = "inline"
    /\ media' = SomeMedia(ReadUpload(request.media))
    /\ resolutions' = resolutions + 1
    /\ call' = ModelCall(Def, request, media')
    /\ modelCalls' = modelCalls + 1
    /\ pc' = "call"
    /\ UNCHANGED <<result, request, fetched, output, partIdx, acc, cause, response,
                   files, sessions, streamVars, assembleVars, saveVars>>

\* The text of the error fetch itself ended in.
FetchErrorText(o) == IF o.kind = "response" THEN o.statusText ELSE o.message

\* The URL branch of the media resolution: fetchFileFromUrl, then the model
\* call, or the error through the catch of the method and of the controller.
FetchRemote(o) ==
    /\ pc = "resolve"
    /\ request.media.kind \in {"remote", "emptyUrl"}
    /\ request.media.kind = "emptyUrl" => o.kind = "network"
    /\ fetched' = o
    /\ resolutions' = resolutions + 1
    /\ LET r == FetchFileFromUrl(o)
       IN  IF r.thrown
           THEN /\ cause' = Cause("fetch", FetchErrorText(o))
                /\ response' = ControllerCatch(request.preset,
                                               CatchAndWrap(Def.prefix, r.message))
                /\ pc' = "done"
                /\ UNCHANGED <<media, call, modelCalls>>
           ELSE /\ media' = SomeMedia(r.value)
                /\ call' = ModelCall(Def, request, media')
                /\ modelCalls' = modelCalls + 1
                /\ pc' = "call"
                /\ UNCHANGED <<cause, response>>
    /\ UNCHANGED <<result, request, output, partIdx, acc, files, sessions,
                   streamVars, assembleVars, saveVars>>

\* A method that answers a failed model call with a second attempt.
ModelFailsRetrying(err) ==
    /\ pc = "call"
    /\ IF modelCalls < 2
       THEN /\ modelCalls' = modelCalls + 1
            /\ UNCHANGED <<pc, cause, response>>
       ELSE /\ cause' = Cause("model", err)
            /\ response' = ControllerCatch(request.preset,
                                           CatchAndWrap(Def.prefix, err))
            /\ pc' = "done"
            /\ UNCHANGED modelCalls
    /\ UNCHANGED <<result, request, fetched, media, call, output, partIdx,
                   acc, files, sessions, streamVars, assembleVars, saveVars, resolutions>>

\* The model call fails.
ModelFails(err) ==
    /\ pc = "call"
    /\ cause' = Cause("model", err)
    /\ response' = ControllerCatch(request.preset, CatchAndWrap(Def.prefix, err))
    /\ pc' = "done"
    /\ UNCHANGED <<result, request, fetched, media, call, modelCalls, output, partIdx,
                   acc, files, sessions, streamVars, assembleVars, saveVars, resolutions>>

\* What the model call of a method can deliver.
ModelOutputs(def) ==
    IF def.isUndefined THEN {}
    ELSE IF def.api = "generateContentStream"
    THEN {Response("stream", cs) : cs \in StreamChunkSeqs}
    ELSE IF def.policy = "text" THEN ChatResponses ELSE Responses

GuardError == <<"Cannot read properties of undefined (reading 'content')">>

\* From the model's output to the end of a method that awaits nothing more:
\* what the method returns, or the error its catch clause throws.
ServiceAfterModel(def, req, out) ==
    CASE def.api = "generateContentStream" ->
            LET a == ConsumeStream(def.policy, StreamStart, out.parts)
            IN  IF a.thrown THEN Thrown(CatchAndWrap(def.prefix, a.message))
                ELSE IF def.policy = "text"
                THEN Returned(ChatResult(req, a.text, a.chunks, def))
                ELSE Returned(ImageResult(a, "none"))
      [] def.policy = "text" ->
            Returned(ChatResult(req,
                IF Truthy(SdkText(out)) THEN SdkText(out).value ELSE << >>,
                << >>, def))
      [] PartsGuard(out) = "throw" ->
            Thrown(CatchAndWrap(def.prefix, GuardError))
      [] PartsGuard(out) = "skip" ->
            Returned(ImageResult(EmptyArtifact, def.type))
      [] OTHER ->
            Returned(ImageResult(AggregateBuffer(EmptyArtifact, out.parts), def.type))

\* The controller after the service method: its catch, or its response.
ControllerRespond(preset, r) ==
    IF r.thrown THEN ControllerCatch(preset, r.message)
    ELSE IF preset \in {"chat", "image"} THEN SuccessPayload(r.value)
    ELSE SingleImageRespond(preset, r.value)

\* The model call returns.  Every method but the second generateImage runs to
\* its end without another await, and so does its controller; generateImage
\* under file policy enters its loop over the parts.
ModelReturns(out) ==
    /\ pc = "call"
    /\ out \in ModelOutputs(Def)
    /\ output' = out
    /\ IF Def.api = "generateContent" /\ Def.policy = "file"
       THEN IF PartsGuard(out) = "throw"
            THEN /\ response' = ControllerCatch(request.preset,
                                    CatchAndWrap(Def.prefix, GuardError))
                 /\ pc' = "done"
                 /\ UNCHANGED <<partIdx, result>>
            ELSE /\ pc' = "loop"
                 /\ partIdx' = 1
                 /\ UNCHANGED <<response, result>>
       ELSE LET r == ServiceAfterModel(Def, request, out)
            IN  /\ result' = IF r.thrown THEN NoResult ELSE SomeResult(r.value)
                /\ response' = ControllerRespond(request.preset, r)
                /\ pc' = "done"
                /\ UNCHANGED partIdx
    /\ UNCHANGED <<request, fetched, media, call, modelCalls, acc, cause, files,
                   sessions, streamVars, assembleVars, saveVars, resolutions>>

\* The parts the loop of generateImage goes over.
LoopParts == IF PartsGuard(output) = "enter" THEN output.parts ELSE << >>

\* The text of the error saveImageToFile itself ended in.
SaveErrorText(mimeType, outcome) ==
    IF mimeType.isUndefined
    THEN <<"Cannot read properties of undefined (reading 'split')">>
    ELSE <<outcome>>

\* One iteration of the loop of generateImage: an image part is saved, with
\* Date.now() = ts and the given outcome of the write, and its URL appended.
LoopStep(ts, outcome) ==
    /\ pc = "loop"
    /\ partIdx <= Len(LoopParts)
    /\ LET part == LoopParts[partIdx]
       IN  IF part.inlineData.isUndefined
           THEN /\ acc' = LoopBody(acc, part, Undefined)
                /\ partIdx' = partIdx + 1
                /\ UNCHANGED <<pc, cause, response, files>>
           ELSE LET r == SaveImageToFile(part.inlineData.data,
                                         part.inlineData.mimeType, ts, outcome, files)
                IN  IF r.thrown
                    THEN /\ cause' = Cause("save",
                                SaveErrorText(part.inlineData.mimeType, outcome))
                         /\ response' = ControllerCatch(request.preset,
                                            CatchAndWrap(Def.prefix, r.message))
                         /\ pc' = "done"
                         /\ UNCHANGED <<acc, partIdx, files>>
                    ELSE /\ files' = r.value.dir
                         /\ acc' = LoopBody(acc, part,
                                            FileImage(r.value.url, part.inlineData))
                         /\ partIdx' = partIdx + 1
                         /\ UNCHANGED <<pc, cause, response>>
    /\ UNCHANGED <<result, request, fetched, media, call, modelCalls, output, sessions, streamVars, assembleVars, saveVars, resolutions>>

\* generateImage returns and the image controller wraps the result.
ImageReturn ==
    /\ pc = "loop"
    /\ partIdx > Len(LoopParts)
    /\ result' = SomeResult(ImageResult(acc, "none"))
    /\ response' = ControllerRespond(request.preset, Returned(ImageResult(acc, "none")))
    /\ pc' = "done"
    /\ UNCHANGED <<request, fetched, media, call, modelCalls, output, partIdx,
                   acc, cause, files, sessions, streamVars, assembleVars, saveVars, resolutions>>

Next ==
    \/ \E req \in Requests : Receive(req)
    \/ SchemaReject
    \/ ValidationReject
    \/ MissingMethod
    \/ InvokeService
    \/ ReadInline
    \/ \E o \in FetchOutcomes : FetchRemote(o)
    \/ \E err \in ModelErrors : ModelFails(err)
    \/ \E out \in ModelOutputs(Def) : ModelReturns(out)
    \/ \E ts \in Timestamps, outcome \in WriteOutcomes : LoopStep(ts, outcome)
    \/ ImageReturn
    \/ Finish

Spec == Init /\ [][Next]_vars

(* ------------------------ a streaming loop alone ------------------------ *)

\* The loops of the first generateImage and the first generateChatResponse,
\* each run on every chunk sequence the bounds allow.
StreamInit ==
    /\ RequestInit
    /\ files = << >>
    /\ sLoop \in {"inline", "text"}
    /\ sInput \in StreamChunkSeqs
    /\ sPos = 1
    /\ sAcc = StreamStart
    /\ sPc = "consuming"
    /\ sessions = << >>
    /\ AssembleOff
    /\ SaveOff

\* The loop takes the next chunk of the stream.
StreamChunk ==
    /\ sPc = "consuming"
    /\ sPos <= Len(sInput)
    /\ sAcc' = IF sLoop = "text" THEN ChatStreamStep(sAcc, sInput[sPos])
               ELSE ImageStreamStep(sAcc, sInput[sPos])
    /\ sPos' = sPos + 1
    /\ sPc' = IF sAcc'.thrown THEN "thrown" ELSE "consuming"
    /\ UNCHANGED <<requestVars, files, sessions, assembleVars, saveVars, sLoop, sInput>>

\* The stream is exhausted and the method returns what it accumulated.
StreamEnd ==
    /\ sPc = "consuming"
    /\ sPos > Len(sInput)
    /\ sPc' = "returned"
    /\ UNCHANGED <<requestVars, files, sessions, assembleVars, saveVars, sLoop, sInput, sPos, sAcc>>

StreamNext == StreamChunk \/ StreamEnd

StreamSpec == StreamInit /\ [][StreamNext]_vars

(* ------------------------ content assembly alone ------------------------ *)

\* The requests that get as far as the contents of a model call.
Dispatchable ==
    {req \in Requests :
        /\ SchemaAccepts(req)
        /\ ~Method(ControllerMethod(req.preset)).isUndefined
        /\ req.preset \in SingleImagePresets => req.media.kind \in {"inline", "remote"}}

\* The media the method can have resolved when it builds the contents.
ResolvedMediaFor(req) ==
    CASE req.media.kind = "inline" /\ req.preset # "image" ->
            {SomeMedia(ReadUpload(req.media))}
      [] req.media.kind = "remote" /\ req.preset # "image" ->
            {SomeMedia(FetchFileFromUrl(o).value) :
                o \in {f \in FetchOutcomes : ~FetchFileFromUrl(f).thrown}}
      [] OTHER -> {NoMedia}

\* The images directories earlier requests can have left behind.
EarlierFiles == {<< >>, WriteFile(<< >>, Filename(1, "png"), "Y")}

\* Two service instances, each given a request and its resolved media, after
\* any earlier requests.
AssembleInit ==
    /\ RequestInit
    /\ StreamOff
    /\ sessions = << >>
    /\ files \in EarlierFiles
    /\ aReq \in [Instances -> Dispatchable]
    /\ aMedia \in {m \in [Instances -> UNION {ResolvedMediaFor(r) : r \in Dispatchable}] :
                      \A i \in Instances : m[i] \in ResolvedMediaFor(aReq[i])}
    /\ aTurns = [i \in Instances |-> NotAssembled]
    /\ SaveOff

\* An instance builds the contents of its model call.
Assemble(i) ==
    /\ aTurns[i].isUndefined
    /\ aTurns' = [aTurns EXCEPT ![i] =
            Assembled(ModelCall(Method(ControllerMethod(aReq[i].preset)),
                                aReq[i], aMedia[i]).contents)]
    /\ UNCHANGED <<requestVars, files, sessions, streamVars, saveVars, aReq, aMedia>>

AssembleNext == \E i \in Instances : Assemble(i)

AssembleSpec == AssembleInit /\ [][AssembleNext]_vars

(* ------------------------ saveImageToFile alone ------------------------- *)

\* What a call of saveImageToFile can be given, and the Date.now() it reads.
SaveInputs ==
    [data : {Base64Encode("X"), Base64Encode("Y")},
     mimeType : {Str(JpegType), Str(PngType), Str(<<"image">>), Undefined},
     ts : Timestamps]

SaveThrew(message) == [isUndefined |-> FALSE, thrown |-> TRUE, message |-> message]
SaveReturned(url) == [isUndefined |-> FALSE, thrown |-> FALSE, url |-> url]

\* Two saves pending on an empty images directory.
SaveInit ==
    /\ RequestInit
    /\ StreamOff
    /\ AssembleOff
    /\ sessions = << >>
    /\ files = << >>
    /\ wSave \in [Saves -> SaveInputs]
    /\ wUrl = [i \in Saves |-> NotSaved]
    /\ wDone = << >>

\* One call of saveImageToFile: it has no await, so it runs from Date.now()
\* to its return (or its throw) in one step.
SaveStep(i, outcome) ==
    /\ wUrl[i].isUndefined
    /\ LET r == SaveImageToFile(wSave[i].data, wSave[i].mimeType, wSave[i].ts,
                                outcome, files)
       IN  IF r.thrown
           THEN /\ wUrl' = [wUrl EXCEPT ![i] = SaveThrew(r.message)]
                /\ UNCHANGED <<files, wDone>>
           ELSE /\ wUrl' = [wUrl EXCEPT ![i] = SaveReturned(r.value.url)]
                /\ files' = r.value.dir
                /\ wDone' = Append(wDone, i)
    /\ UNCHANGED <<requestVars, sessions, streamVars, assembleVars, wSave>>

SaveNext == \E i \in Saves, outcome \in WriteOutcomes : SaveStep(i, outcome)

SaveSpec == SaveInit /\ [][SaveNext]_vars

(* -------------------------------- claims -------------------------------- *)

IsImagePart(p) == ~p.inlineData.isUndefined
IsTextPart(p) == p.inlineData.isUndefined /\ Truthy(p.text)

RECURSIVE TextValues(_)
\* The texts of a list of text parts.
TextValues(ps) ==
    IF ps = << >> THEN << >> ELSE <<Head(ps).text.value>> \o TextValues(Tail(ps))

\* The image parts and the text of a list of parts, in part order.
ImagePartsOf(parts) == SelectSeq(parts, IsImagePart)
TextOf(parts) == Concat(TextValues(SelectSeq(parts, IsTextPart)))

IsFailure(r) == r.kind = "json" /\ ~r.success

\* The request supplies no media reference to a single-image preset.
NoMediaSupplied ==
    /\ request.preset \in SingleImagePresets
    /\ request.media.kind \in {"absent", "emptyUrl"}

\* C1: a request to a single-required-media preset (figurine, hijab,
\* sdmtinggi, hitam) that supplies no media reference never gets past the
\* route: no media is resolved and no call to the external model is made for
\* it, and it ends rejected, by the route's schema or by the handler's
\* validation failure "imageUrl parameter is required".
C1_MissingMediaFailsFast ==
    NoMediaSupplied =>
        /\ pc \in {"route", "done"}
        /\ modelCalls = 0
        /\ call = NoCall
        /\ pc = "done" =>
              \/ response = SchemaError
              \/ IsFailure(response) /\ response.error = ImageUrlRequired

C1_Witness ==
    /\ pc = "done"
    /\ request.preset = "sdmtinggi"
    /\ request.media = EmptyUrl
    /\ IsFailure(response)
    /\ response.error = ImageUrlRequired
    /\ modelCalls = 0

\* C2: every failure of a pipeline step (media fetch, model call, image save)
\* is caught at the controller boundary and returned as {success: false,
\* error: message}, and the message contains the text of the underlying error.
C2_FailuresReported ==
    (pc = "done" /\ cause.thrown) =>
        /\ IsFailure(response)
        /\ Contains(response.error, cause.message)

C2_Witness ==
    /\ pc = "done"
    /\ cause.thrown
    /\ cause.step = "fetch"
    /\ fetched.kind = "response"
    /\ IsFailure(response)
    /\ response.error = <<"Figurine generation failed: ",
                          "Error fetching file from URL: ",
                          "Failed to fetch file: ", "Not Found">>

\* C3: the hitam preset, invoked with a valid single image, calls the model
\* once and returns the first image as a raw byte buffer; short of a failed
\* fetch or model call, the only other outcome is "No image generated".
C3_HitamReturnsBuffer ==
    (/\ pc = "done"
     /\ request.preset = "hitam"
     /\ request.media.kind \in {"inline", "remote"}
     /\ ~(cause.thrown /\ cause.step \in {"fetch", "model"}))
    => /\ modelCalls = 1
       /\ \/ response.kind = "buffer"
          \/ IsFailure(response) /\ response.error = NoImageGenerated

\* C4: the chat preset always calls the external model in streaming mode.
C4_ChatStreams ==
    (request.preset = "chat" /\ call # NoCall) =>
        call.api = "generateContentStream"

RECURSIVE StreamText(_)
StreamText(chunks) ==
    IF chunks = << >> THEN << >>
    ELSE (IF Head(chunks).shape = "parts" THEN TextOf(Head(chunks).parts) ELSE << >>)
         \o StreamText(Tail(chunks))

RECURSIVE StreamImages(_)
StreamImages(chunks) ==
    IF chunks = << >> THEN << >>
    ELSE (IF Head(chunks).shape = "parts"
          THEN ImagePartsOf(Head(chunks).parts) ELSE << >>)
         \o StreamImages(Tail(chunks))

\* C6: streaming aggregation drops nothing: when the loop has consumed the
\* stream, the text is the concatenation of all text deltas in arrival order
\* and the image list holds every inline image in arrival order, a chunk with
\* both text and an image contributing both.
C6_StreamKeepsEverything ==
    sPc = "returned" =>
        /\ sAcc.text = StreamText(sInput)
        /\ sLoop = "inline" =>
              /\ Len(sAcc.images) = Len(StreamImages(sInput))
              /\ \A i \in DOMAIN sAcc.images :
                    sAcc.images[i].data = StreamImages(sInput)[i].inlineData.data

\* C7: non-streaming aggregation visits the parts of the first candidate once,
\* in order: the artifact's text is the concatenation of every text part in
\* part order and its image list has one entry per inline-image part, in part
\* order.
C7_PartsKeptInOrder ==
    (/\ pc = "done"
     /\ ~result.isUndefined
     /\ request.preset \in {"image", "figurine", "hijab", "sdmtinggi"}
     /\ output.shape = "parts")
    => LET images == result.value.images
           parts == ImagePartsOf(output.parts)
       IN  /\ result.value.text = TextOf(output.parts)
           /\ Len(images) = Len(parts)
           /\ \A i \in DOMAIN images :
                 /\ images[i].mimeType = parts[i].inlineData.mimeType
                 /\ request.preset # "image" =>
                       /\ images[i].data = parts[i].inlineData.data
                       /\ images[i].buffer = Base64Decode(parts[i].inlineData.data)
                 /\ request.preset = "image" =>
                       /\ images[i].url.filename.extension
                             = Extension(parts[i].inlineData.mimeType)
                       /\ images[i].url.filename \in DOMAIN files

C7_Witness ==
    /\ pc = "done"
    /\ ~result.isUndefined
    /\ request.preset = "figurine"
    /\ output.shape = "parts"
    /\ Len(output.parts) = 2
    /\ Len(result.value.images) = 2
    /\ result.value.images[1].buffer = "Y"
    /\ result.value.images[2].buffer = "X"

\* C8: a non-streaming response with no candidates, a first candidate without
\* content, or content without parts yields an artifact with empty text, an
\* empty image list and totalImages 0, and raises no error.
C8_EmptyResponseEmptyArtifact ==
    (/\ pc = "done"
     /\ request.preset \in {"image", "figurine", "hijab", "sdmtinggi"}
     /\ output \in DegenerateResponses)
    => /\ ~cause.thrown
       /\ ~result.isUndefined
       /\ result.value.text = << >>
       /\ result.value.images = << >>
       /\ result.value.totalImages = 0
       /\ ~(IsFailure(response) /\ response.error # NoImageGenerated)

C8_Witness ==
    /\ pc = "done"
    /\ request.preset = "sdmtinggi"
    /\ output = Response("emptyCandidates", << >>)
    /\ ~result.isUndefined
    /\ result.value.totalImages = 0

\* C9: when the model produces zero image parts, every image-producing
\* endpoint reports the outcome "No image generated" as a returned failure
\* envelope, never as a success payload.
C9_NoImageReported ==
    (/\ pc = "done"
     /\ request.preset \in {"image"} \cup SingleImagePresets
     /\ ~result.isUndefined
     /\ ImagePartsOf(LoopParts) = << >>)
    => IsFailure(response) /\ response.error = NoImageGenerated

\* C10: the MIME type placed in the inline media part of a request built from
\* an uploaded file is never empty.
C10_UploadMimeNeverEmpty ==
    (request.media.kind = "inline" /\ call # NoCall) =>
        \A t \in DOMAIN call.contents :
            \A i \in DOMAIN call.contents[t].parts :
                call.contents[t].parts[i].kind = "inlineData" =>
                    Truthy(call.contents[t].parts[i].mimeType)

OctetStream == Str(<<"application", "octet-stream">>)

\* The inline media parts of the dispatched contents.
InlinePartsOf(contents) ==
    {contents[t].parts[i] : <<t, i>> \in
        {<<t, i>> \in (DOMAIN contents) \X (1..2) :
            /\ i \in DOMAIN contents[t].parts
            /\ contents[t].parts[i].kind = "inlineData"}}

\* C11: for every successfully fetched remote media reference the resolved
\* MIME type is the response's content-type header when the header is present
\* and non-empty and application/octet-stream otherwise; it is never empty or
\* unset, in the resolved media and in the part dispatched to the model.
C11_FetchedMimeNeverEmpty ==
    (fetched.kind = "response" /\ fetched.ok) =>
        /\ ~media.isUndefined
        /\ Truthy(media.mimeType)
        /\ media.mimeType =
              IF ~fetched.contentType.isUndefined
                 /\ fetched.contentType.value # <<"">>
              THEN fetched.contentType ELSE OctetStream
        /\ call # NoCall
        /\ \A p \in InlinePartsOf(call.contents) : p.mimeType = media.mimeType

C11_Witness ==
    /\ pc = "call"
    /\ fetched.kind = "response"
    /\ fetched.ok
    /\ fetched.contentType = Str(<<"">>)
    /\ media.mimeType = OctetStream
    /\ InlinePartsOf(call.contents) # {}

\* The text of the failure a fetch outcome stands for: the status text of a
\* non-success response, the error text of a transport failure.
UpstreamText(o) == IF o.kind = "response" THEN o.statusText ELSE o.message

\* C12: when the fetch of a remote media reference returns a non-success
\* status or fails in transport (unreachable host, body read failure),
\* fetchFileFromUrl throws instead of returning media: nothing is resolved or
\* dispatched, and its error message, and the one reported, contains the
\* upstream status text or the transport error text.
C12_FetchFailureReported ==
    (\/ fetched.kind \in {"network", "body"}
     \/ fetched.kind = "response" /\ ~fetched.ok)
    => /\ FetchFileFromUrl(fetched).thrown
       /\ Contains(FetchFileFromUrl(fetched).message, UpstreamText(fetched))
       /\ media.isUndefined
       /\ call = NoCall
       /\ pc = "done"
       /\ IsFailure(response)
       /\ Contains(response.error, UpstreamText(fetched))

C12_Witness ==
    /\ pc = "done"
    /\ fetched.kind = "body"
    /\ request.preset = "chat"
    /\ response.error = <<"Chat generation failed: ",
                          "Error fetching file from URL: ", "terminated">>

\* Whether the request in progress carries a system prompt.
HasSystemPrompt ==
    /\ request.preset = "chat"
    /\ ~request.systemPrompt.isUndefined
    /\ request.systemPrompt.value \notin {<< >>, <<"">>}

\* C13: in every request dispatched to the model, a system prompt, if
\* present, is the only part of the first turn and that turn precedes the user
\* turn; the user turn is the last turn, its text part is at index 0 and the
\* media part, if any, follows it; without media the user turn has exactly
\* one part, the text part.
C13_TurnOrder ==
    call # NoCall =>
        LET contents == call.contents
            user == contents[Len(contents)]
        IN  /\ Len(contents) = IF HasSystemPrompt THEN 2 ELSE 1
            /\ HasSystemPrompt =>
                  contents[1].parts =
                      <<[kind |-> "text", text |-> request.systemPrompt.value]>>
            /\ \A t \in DOMAIN contents : contents[t].role = "user"
            /\ user.parts[1].kind = "text"
            /\ request.preset \in {"chat", "image"} =>
                  user.parts[1].text = request.message
            /\ media.isUndefined => Len(user.parts) = 1
            /\ ~media.isUndefined =>
                  /\ Len(user.parts) = 2
                  /\ user.parts[2].kind = "inlineData"
                  /\ user.parts[2].data = media.data
                  /\ user.parts[2].mimeType = media.mimeType

C13_Witness ==
    /\ pc = "call"
    /\ request.preset = "chat"
    /\ HasSystemPrompt
    /\ ~media.isUndefined
    /\ Len(call.contents) = 2
    /\ Len(call.contents[2].parts) = 2

\* Two instances were given requests with the same message, system prompt and
\* preset, and the same resolved media.
SameAssemblyInput(i, j) ==
    /\ aReq[i].preset = aReq[j].preset
    /\ aReq[i].message = aReq[j].message
    /\ aReq[i].systemPrompt = aReq[j].systemPrompt
    /\ aMedia[i] = aMedia[j]

ExpectedExtension(mimeType) ==
    IF ~mimeType.isUndefined /\ Len(mimeType.value) >= 2 /\ mimeType.value[2] # ""
    THEN mimeType.value[2] ELSE "png"

\* The image parts the loop of generateImage has gone past.
SavedParts == ImagePartsOf(SubSeq(LoopParts, 1, partIdx - 1))

\* The errors of the write itself.
WriteErrors == {<<o>> : o \in WriteOutcomes \ {"written"}}

\* C15: under file policy every image part the loop has gone past has a file
\* generated_<timestamp>.<ext> in the images directory and the URL
\* /images/<that name>, <ext> being the MIME subtype when there is a non-empty
\* one and png otherwise; and saveImageToFile never fails because of the MIME
\* type (no subtype, or no MIME type at all), only when the write fails.
C15_SaveNamesFile ==
    (request.preset = "image" /\ pc \in {"loop", "done"}) =>
        /\ Len(acc.images) = Len(SavedParts)
        /\ \A i \in DOMAIN acc.images :
              /\ acc.images[i].url.dir = "/images/"
              /\ acc.images[i].url.filename.prefix = "generated_"
              /\ acc.images[i].url.filename.timestamp \in Timestamps
              /\ acc.images[i].url.filename.extension
                    = ExpectedExtension(SavedParts[i].inlineData.mimeType)
              /\ acc.images[i].url.filename \in DOMAIN files
        /\ (cause.thrown /\ cause.step = "save") => cause.message \in WriteErrors

BufferPresets == {"figurine", "hijab", "sdmtinggi"}

\* C16: no step of a request to a buffer-policy preset (figurine, hijab,
\* sdmtinggi) changes the images directory: no file is created, overwritten
\* or removed; and the buffer the request returns holds exactly the bytes of
\* the model's first image part, with that part's MIME type as content type.
C16_BufferLeavesDirectory ==
    [][/\ request.preset \in BufferPresets => files' = files
       /\ response'.kind = "buffer" =>
             /\ request'.preset \in BufferPresets
             /\ ImagePartsOf(output'.parts) # << >>
             /\ response'.body = ImagePartsOf(output'.parts)[1].inlineData.data.b64
             /\ response'.contentType
                   = ImagePartsOf(output'.parts)[1].inlineData.mimeType]_vars

C16_Witness ==
    /\ pc = "done"
    /\ request.preset = "hijab"
    /\ response.kind = "buffer"
    /\ response.body = "X"
    /\ response.contentType = Str(JpegType)
    /\ Len(output.parts) = 2
    /\ files # << >>

\* C17: no request calls the external model more than once; after a failed
\* model call the request is over, with one call made, nothing returned by
\* the service and a single failure reported that carries the model's error.
C17_SingleModelCall ==
    /\ modelCalls <= 1
    /\ call # NoCall <=> modelCalls = 1
    /\ (cause.thrown /\ cause.step = "model") =>
          /\ pc = "done"
          /\ modelCalls = 1
          /\ result.isUndefined
          /\ IsFailure(response)
          /\ Contains(response.error, cause.message)

C17_Witness ==
    /\ pc = "done"
    /\ cause.thrown
    /\ cause.step = "model"
    /\ request.preset = "figurine"
    /\ modelCalls = 1
    /\ response.error = <<"Figurine generation failed: ", "503 model overloaded">>

C19_ConfigFollowsFlags ==
    (request.preset = "chat" /\ call # NoCall) =>
        /\ "tools=[googleSearch]" \in call.config <=> request.useTools
        /\ "thinkingConfig.thinkingBudget=-1" \in call.config <=> request.useThinking
        /\ call.config \subseteq
              {"tools=[googleSearch]", "thinkingConfig.thinkingBudget=-1"}

C19_Witness ==
    /\ pc = "call"
    /\ request.preset = "chat"
    /\ request.useTools
    /\ request.useThinking
    /\ call.config = {"tools=[googleSearch]", "thinkingConfig.thinkingBudget=-1"}

\* The files the request in progress has written: generateImage pushes the URL
\* of each file it saved.
FilesWrittenByRequest == {acc.images[i].url.filename : i \in DOMAIN acc.images}

\* C20: a request is all-or-nothing: when a step of it has failed, the save of
\* the k-th image under file policy included, the caller gets a failure
\* envelope with no text and no images, and no file the request wrote is left
\* in the images directory.
C20_AllOrNothing ==
    (pc = "done" /\ cause.thrown) =>
        /\ result.isUndefined
        /\ IsFailure(response)
        /\ DOMAIN response = {"kind", "status", "success", "error"}
        /\ \A f \in FilesWrittenByRequest : f \notin DOMAIN files

\* Whether a save has returned a URL.
HasSaved(i) == ~wUrl[i].isUndefined /\ ~wUrl[i].thrown

\* Two saves read the same timestamp and have the same MIME subtype.
SameStamp(i, j) ==
    /\ wSave[i].ts = wSave[j].ts
    /\ ExpectedExtension(wSave[i].mimeType) = ExpectedExtension(wSave[j].mimeType)

SuppliesMedia ==
    /\ request.preset \in {"chat"} \cup SingleImagePresets
    /\ request.media.kind \in {"inline", "remote"}

\* The fetch of the remote reference did not deliver the file.
FetchFailed ==
    \/ fetched.kind \in {"network", "body"}
    \/ fetched.kind = "response" /\ ~fetched.ok

\* C22: within one request the media reference is resolved at most once, and
\* exactly once, with the media in hand, by the time a model call has been
\* made for a request that carries one; when the resolution of a remote
\* reference fails the request ends in failure with no model call.
C22_ResolvedOnceBeforeCall ==
    /\ resolutions <= 1
    /\ resolutions = 0 => media.isUndefined /\ fetched = NoFetch
    /\ (call # NoCall /\ SuppliesMedia) =>
          /\ resolutions = 1
          /\ ~media.isUndefined
          /\ InlinePartsOf(call.contents) # {}
    /\ FetchFailed =>
          /\ resolutions = 1
          /\ modelCalls = 0
          /\ call = NoCall
          /\ pc = "done"
          /\ IsFailure(response)

C22_Witness ==
    /\ pc = "call"
    /\ request.preset = "sdmtinggi"
    /\ request.media.kind = "remote"
    /\ resolutions = 1
    /\ modelCalls = 1
    /\ fetched.ok
    /\ ~media.isUndefined

\* The inline-image parts the model emitted for the request in progress.
EmittedImageParts ==
    IF output.shape = "parts" THEN ImagePartsOf(output.parts) ELSE << >>

\* C23: in every artifact returned by generateImage, generateFigurine,
\* generateHijab and generateSdmTinggi, totalImages is the number of entries
\* of images, which is the number of inline-image parts the model emitted.
C23_TotalImagesCounts ==
    (/\ pc = "done"
     /\ ~result.isUndefined
     /\ request.preset \in {"image"} \cup BufferPresets)
    => /\ result.value.totalImages = Len(result.value.images)
       /\ Len(result.value.images) = Len(EmittedImageParts)

C23_Witness ==
    /\ pc = "done"
    /\ request.preset = "image"
    /\ ~result.isUndefined
    /\ result.value.totalImages = 2
    /\ Len(EmittedImageParts) = 2
    /\ Len(output.parts) = 2

\* C24: for figurine, hijab and sdmtinggi, when the model emits one image
\* part or more, the response is the buffer of the first image in model order
\* with that image's MIME type as Content-Type, and nothing else: no other
\* image and no generated text reaches the caller.
C24_FirstImageOnly ==
    (/\ pc = "done"
     /\ request.preset \in BufferPresets
     /\ ~result.isUndefined
     /\ Len(EmittedImageParts) >= 1)
    => /\ response.kind = "buffer"
       /\ response.body = EmittedImageParts[1].inlineData.data.b64
       /\ response.contentType = EmittedImageParts[1].inlineData.mimeType
       /\ DOMAIN response = {"kind", "status", "body", "contentType", "disposition"}

C24_Witness ==
    /\ pc = "done"
    /\ request.preset = "sdmtinggi"
    /\ ~result.isUndefined
    /\ Len(EmittedImageParts) = 2
    /\ EmittedImageParts[1].inlineData.data.b64 = "Y"
    /\ EmittedImageParts[2].inlineData.data.b64 = "X"
    /\ response.kind = "buffer"
    /\ response.body = "Y"

\* C25: the status of a {success: false} response depends on the endpoint:
\* in chat and image-generate it comes from a caught error and is 500; in
\* figurine, hijab, sdmtinggi and hitam (caught error, missing imageUrl, no
\* image generated) it is left at the default, 200.
C25_FailureStatusByEndpoint ==
    IsFailure(response) =>
        IF request.preset \in {"chat", "image"}
        THEN response.status = 500 /\ cause.thrown
        ELSE response.status = 200

C25_Witness ==
    /\ pc = "done"
    /\ request.preset = "hitam"
    /\ cause.thrown
    /\ cause.step = "method"
    /\ IsFailure(response)
    /\ response.status = 200

=============================================================================
